---- MODULE Spec2Model ----
(***************************************************************************)
(* Payment settlement and dynamic pricing engine of ayushs206/makeathon.   *)
(*                                                                         *)
(* The credit ledger (backend/src/payment/engine.ts), the payment          *)
(* middleware requirePayment (backend/src/payment/middleware, found in     *)
(* backend/src/index.ts) and the negotiation price state                   *)
(* (agent/negotiationAgent, found in unnamed/part_000) as a state machine. *)
(* Every `await` of the source is a point where another request may run,   *)
(* so every handler is cut into one action per stretch of code between     *)
(* two awaits that touch the store.                                        *)
(***************************************************************************)
EXTENDS Integers, Sequences, FiniteSets, TLC

\* ------------------------------------------------------------------ bounds

\* Identities (wallet addresses) and request slots.
Users == {"u1", "u2"}
Procs == {"p1", "p2", "p3"}
\* Request slots that run in the full system, and in the sequential one.
MainProcs == {"p1", "p2"}
SeqProcs == {"p1"}

\* The ledger holds at most MaxRows rows when a request that can add one starts.
MaxRows == 3
\* The clock advances at most MaxTicks times.
MaxTicks == 1
\* A negotiation turn starts only while negotiationAttempts is below MaxAttempts.
MaxAttempts == 2
\* amountCents values sent to POST /api/wallet/fund (0 is rejected by the endpoint).
FundAmounts == {-4, 0, 3, 10}
\* The amounts among them that a client deposits before it buys.
Deposits == {3, 10}
\* externalTxRef values sent to POST /api/wallet/fund.
FundHashes == {1, 2}
\* actionCostCents values of a direct processPayment call.
DeductCosts == {-2, 0, 4, 10}

\* ------------------------------------------------------------------ state

VARIABLES
    credits,       \* userCredits collection: identity -> CreditAccount
    txs,           \* creditTransactions collection, in insertion order
    now,           \* Date.now(), in ms
    pricingState,  \* in-memory negotiation map: identity -> NegotiationState
    challenge,     \* per identity, the 402 challenge the client last received
    req            \* per request slot: the handler it runs and its locals

vars == <<credits, txs, now, pricingState, challenge, req>>

\* ------------------------------------------------------------------ data

\* findOne() found no document / an optional field that is not set.
NoId == 0
NoHash == 0
NoUser == "none"

\* A missing CreditAccount document.
NoAccount == [exists |-> FALSE, balance |-> 0, lifetimePurchased |-> 0, lifetimeUsed |-> 0]

\* A CreditTransaction document. metadata.originalTxId is the only metadata field
\* any query reads; createdAt is the clock at the insert.
Row(id, userId, type, amount, txHash, originalTxId) ==
    [id |-> id, userId |-> userId, type |-> type, amount |-> amount,
     txHash |-> txHash, status |-> "CONFIRMED", originalTxId |-> originalTxId,
     createdAt |-> now]

\* crypto.randomUUID(): an id no existing row carries. Rows are only appended, so the
\* position the new row will take is fresh.
randomUUID == Len(txs) + 1

\* The transaction hash the settlement rail reports for a settlement: unique per
\* settlement, and in a range no funding request of the model uses.
SettlementHashBase == 100
SettlementHash == SettlementHashBase + Len(txs) + 1

\* A toDeduct that takes the whole balance whatever the cost.
MinTakesBalance(a, b) == a

Min(a, b) == IF a < b THEN a ELSE b
Abs(a) == IF a < 0 THEN -a ELSE a

RECURSIVE SumAmounts(_)
\* Sum of row amounts over a set of row indexes.
SumAmounts(S) ==
    IF S = {} THEN 0
    ELSE LET i == CHOOSE j \in S : TRUE IN txs[i].amount + SumAmounts(S \ {i})

\* ---- engine.ts queries

\* A lookup of the original row by id alone, whatever its type.
FindUsageAnyType(id) ==
    LET S == {k \in 1..Len(txs) : txs[k].id = id}
    IN IF S = {} THEN 0 ELSE CHOOSE i \in S : \A j \in S : i <= j

\* txCol.findOne({ id, type: 'USAGE', status: 'CONFIRMED' }): index of the row, 0 if none.
FindUsage(id) ==
    LET S == {k \in 1..Len(txs) : txs[k].id = id /\ txs[k].type = "USAGE" /\ txs[k].status = "CONFIRMED"}
    IN IF S = {} THEN 0 ELSE CHOOSE i \in S : \A j \in S : i <= j

\* A double-refund check that never finds the earlier refund.
ExistingRefundNever(id) == FALSE

\* txCol.findOne({ type: 'REFUND', "metadata.originalTxId": id }) found a row.
ExistingRefund(id) ==
    {k \in 1..Len(txs) : txs[k].type = "REFUND" /\ txs[k].originalTxId = id} # {}

\* An idempotency check that never finds the earlier deposit.
ExistingDepositNever(txHash) == FALSE

\* txCol.findOne({ txHash, status: 'CONFIRMED' }) found a row.
ExistingDeposit(txHash) ==
    {k \in 1..Len(txs) : txs[k].txHash = txHash /\ txs[k].status = "CONFIRMED"} # {}

\* txCol.findOne({ userId, type: 'USAGE' }, { sort: { createdAt: -1 } }): index of the
\* most recent USAGE row of the identity, 0 if none. createdAt grows with the
\* insertion order, so the most recent row is the last one inserted.
LatestUsage(userId) ==
    LET S == {k \in 1..Len(txs) : txs[k].userId = userId /\ txs[k].type = "USAGE"}
    IN IF S = {} THEN 0 ELSE CHOOSE i \in S : \A j \in S : j <= i

\* The validity window of a recovered USAGE row, in ms.
ValidityWindowMs == 300000

\* ------------------------------------------------------------------ pricing tiers

\* Verified domains sent with a request.
Domains == {"acme.com", "uni.edu"}

\* Starting and floor price of the commercial and of the edu/org tier, in cents.
CommercialStartCents == 10
CommercialFloorCents == 5
EduOrgStartCents == 5
EduOrgFloorCents == 1

\* isEduDomain(domain) || isOrgDomain(domain)
isEduOrg(domain) == domain = "uni.edu"

\* The tier's discount schedule, strictly decreasing from start to floor.
discountSchedule(domain) ==
    IF isEduOrg(domain) THEN {EduOrgStartCents, 3, EduOrgFloorCents}
    ELSE {CommercialStartCents, 7, CommercialFloorCents}

getStartingPrice(domain) == IF isEduOrg(domain) THEN EduOrgStartCents ELSE CommercialStartCents

getFloorPrice(domain) == IF isEduOrg(domain) THEN EduOrgFloorCents ELSE CommercialFloorCents

\* The next strictly lower price of the tier's schedule, the floor when none is left.
getNextPrice(domain, cents) ==
    LET lower == {c \in discountSchedule(domain) : c < cents}
    IN IF lower = {} THEN getFloorPrice(domain)
       ELSE CHOOSE c \in lower : \A d \in lower : d <= c

\* POST /chat runs the agent for 'anonymous' when the request has no walletAddress,
\* index.ts 134; pricingState is keyed by every wallet string a request brings.
Anonymous == "anonymous"
Wallets == Users \cup {Anonymous}

\* An identity without NegotiationState.
NoPricing == [exists |-> FALSE, cents |-> 0, round |-> 0, domain |-> "none",
              topic |-> "none", negotiationAttempts |-> 0]

\* A lookup that seeds the state again on every call.
getCurrentPriceReseed(walletAddress, domain) ==
    [pricingState EXCEPT ![walletAddress] =
        [exists |-> TRUE, cents |-> getStartingPrice(domain), round |-> 0,
         domain |-> domain, topic |-> "none", negotiationAttempts |-> 0]]

\* pricingState after getCurrentPrice(walletAddress, domain): the state is created at
\* the tier's starting price on the first call and left alone afterwards.
getCurrentPrice(walletAddress, domain) ==
    IF pricingState[walletAddress].exists THEN pricingState
    ELSE [pricingState EXCEPT ![walletAddress] =
            [exists |-> TRUE, cents |-> getStartingPrice(domain), round |-> 0,
             domain |-> domain, topic |-> "none", negotiationAttempts |-> 0]]

\* ------------------------------------------------------------------ requests

\* A snapshot of the store, taken when a request of the sequential system starts.
NoSnapshot == [credits |-> [u \in Users |-> NoAccount], txs |-> <<>>]
Snapshot(keep) == IF keep THEN [credits |-> credits, txs |-> txs] ELSE NoSnapshot

\* A free request slot. The fields are the locals of the handlers:
\*   user, domain      walletAddress (originalTx.userId in refundCredits), domain
\*   cost              actionCostCents / amountCents / refundAmount
\*   hash, target      txHash of a funding, originalTransactionId of a refund
\*   pref, isSettling  paymentPreference, payment-authorization header present
\*   auth              the amount the presented authorization pays
\*   toDeduct, deducted, remaining, txId, usdcPaid
\*                     toDeduct, creditsDeducted, remainingCostCents, transactionId
\*   attempts, round, floor, finalPrice
\*                     currentState.negotiationAttempts, the round a price query
\*                     answers, floor and finalPrice of runNegotiationAgent (cost
\*                     holds currentState.cents)
\*   chain             what the chain answers about txHash (verifyTransaction)
\*   history           the rows GET /api/wallet/history answers
\*   outcome           what the request answered
\*   pre               the store when the request started (sequential system only)
NoChain == [found |-> FALSE, status |-> "none", from |-> "none", value |-> 0, logs |-> <<>>]

Idle ==
    [op |-> "idle", pc |-> "idle", user |-> NoUser, domain |-> "none", cost |-> 0,
     hash |-> NoHash, target |-> NoId, pref |-> "none", isSettling |-> FALSE,
     auth |-> 0, toDeduct |-> 0, deducted |-> 0, remaining |-> 0, txId |-> NoId,
     usdcPaid |-> 0, attempts |-> 0, round |-> 0, floor |-> 0, finalPrice |-> 0,
     chain |-> NoChain, history |-> <<>>, outcome |-> "none", pre |-> NoSnapshot]

\* Request slot p continues as r.
Continue(p, r) == req' = [req EXCEPT ![p] = r]

\* A request that can append a ledger row starts only while the ledger has room; a
\* refund, which only follows a deduction already recorded, has one row more.
Room == Len(txs) < MaxRows

RefundRoom == Len(txs) <= MaxRows

\* ------------------------------------------------------------------ processPayment

\* processPayment returns { remainingCostCents, creditsDeducted, transactionId } to its
\* caller: a direct call answers, requirePayment and handleX402Request go on to their
\* coverage check.
PaymentProcessResult(r, remainingCostCents, creditsDeducted, transactionId) ==
    LET res == [r EXCEPT !.remaining = remainingCostCents,
                         !.deducted = creditsDeducted,
                         !.txId = transactionId]
    IN IF r.op = "deduct" THEN [res EXCEPT !.pc = "done", !.outcome = "OK"]
       ELSE IF r.op = "x402" THEN [res EXCEPT !.pc = "hx_gate"]
       ELSE [res EXCEPT !.pc = "rp_gate"]

\* An entry that forgot the check of the cost.
processPaymentEntryUnchecked(r) ==
    IF r.pref = "DIRECT_USDC" THEN PaymentProcessResult(r, r.cost, 0, NoId)
    ELSE [r EXCEPT !.pc = "pp_read"]

\* engine.ts 22-28: the checks before the store is touched.
processPaymentEntry(r) ==
    IF r.cost <= 0 THEN PaymentProcessResult(r, 0, 0, NoId)
    ELSE IF r.pref = "DIRECT_USDC" THEN PaymentProcessResult(r, r.cost, 0, NoId)
    ELSE [r EXCEPT !.pc = "pp_read"]

\* A direct call processPayment(actionCostCents, userId, paymentPreference).
StartDeduct(p, U, keep) ==
    /\ req[p].pc = "idle"
    /\ Room
    /\ \E u \in U, c \in DeductCosts, pref \in {"CREDITS_FIRST", "DIRECT_USDC"} :
         Continue(p, processPaymentEntry(
             [Idle EXCEPT !.op = "deduct", !.user = u, !.cost = c, !.pref = pref,
                          !.pre = Snapshot(keep)]))
    /\ UNCHANGED <<credits, txs, now, pricingState, challenge>>

\* engine.ts 43-48: creditsCol.findOne({ userId }) and the choice of toDeduct.
PPRead(p) ==
    /\ req[p].pc = "pp_read"
    /\ LET r == req[p]
           userCredit == credits[r.user]
       IN IF ~userCredit.exists \/ userCredit.balance <= 0
          THEN Continue(p, PaymentProcessResult(r, r.cost, 0, NoId))
          ELSE Continue(p, [r EXCEPT !.toDeduct = Min(userCredit.balance, r.cost),
                                     !.pc = "pp_update"])
    /\ UNCHANGED <<credits, txs, now, pricingState, challenge>>

\* A conditional update whose filter matches no account.
DeductGuardNever(account, toDeduct) == FALSE

\* A conditional update whose filter forgot the balance.
DeductGuardUnguarded(account, toDeduct) == account.exists

\* The filter of the conditional update, engine.ts 52: { userId, balance: { $gte: toDeduct } }.
DeductGuard(account, toDeduct) == account.exists /\ account.balance >= toDeduct

\* engine.ts 51-63: findOneAndUpdate; a rejected update calls processPayment again.
PPUpdate(p) ==
    /\ req[p].pc = "pp_update"
    /\ LET r == req[p]
           a == credits[r.user]
       IN IF DeductGuard(a, r.toDeduct)
          THEN /\ credits' = [credits EXCEPT ![r.user] =
                                [a EXCEPT !.balance = a.balance - r.toDeduct,
                                          !.lifetimeUsed = a.lifetimeUsed + r.toDeduct]]
               /\ Continue(p, [r EXCEPT !.pc = "pp_insert"])
          ELSE /\ credits' = credits
               /\ Continue(p, processPaymentEntry(r))
    /\ UNCHANGED <<txs, now, pricingState, challenge>>

\* engine.ts 65-79: the USAGE row and the result.
PPInsert(p) ==
    /\ req[p].pc = "pp_insert"
    /\ LET r == req[p]
           txId == randomUUID
       IN /\ txs' = Append(txs, Row(txId, r.user, "USAGE", -r.toDeduct, NoHash, NoId))
          /\ Continue(p, PaymentProcessResult(r, r.cost - r.toDeduct, r.toDeduct, txId))
    /\ UNCHANGED <<credits, now, pricingState, challenge>>

\* ------------------------------------------------------------------ refundCredits

\* A call refundCredits(originalTransactionId), for an id that is or is not in the ledger.
StartRefund(p, keep) ==
    /\ req[p].pc = "idle"
    /\ RefundRoom
    /\ \E id \in 1..(Len(txs) + 1) :
         Continue(p, [Idle EXCEPT !.op = "refund", !.pc = "rf_find", !.target = id,
                                  !.pre = Snapshot(keep)])
    /\ UNCHANGED <<credits, txs, now, pricingState, challenge>>

\* engine.ts 90-91: the original USAGE row.
RefundFind(p) ==
    /\ req[p].pc = "rf_find"
    /\ LET r == req[p]
           i == FindUsage(r.target)
       IN IF i = 0
          THEN Continue(p, [r EXCEPT !.pc = "done", !.outcome = "FALSE"])
          ELSE Continue(p, [r EXCEPT !.pc = "rf_check", !.user = txs[i].userId,
                                     !.cost = Abs(txs[i].amount)])
    /\ UNCHANGED <<credits, txs, now, pricingState, challenge>>

\* engine.ts 95-97: the double-refund check.
RefundCheck(p) ==
    /\ req[p].pc = "rf_check"
    /\ LET r == req[p]
       IN IF ExistingRefund(r.target)
          THEN Continue(p, [r EXCEPT !.pc = "done", !.outcome = "FALSE"])
          ELSE Continue(p, [r EXCEPT !.pc = "rf_update"])
    /\ UNCHANGED <<credits, txs, now, pricingState, challenge>>

\* A refund that forgets to credit the balance.
RefundUpdateSkipped(p) ==
    /\ req[p].pc = "rf_update"
    /\ Continue(p, [req[p] EXCEPT !.pc = "rf_insert"])
    /\ UNCHANGED <<credits, txs, now, pricingState, challenge>>

\* engine.ts 102-108: updateOne without upsert: a missing account is left missing.
RefundUpdate(p) ==
    /\ req[p].pc = "rf_update"
    /\ LET r == req[p]
           a == credits[r.user]
       IN /\ credits' = IF a.exists
                        THEN [credits EXCEPT ![r.user] = [a EXCEPT !.balance = a.balance + r.cost]]
                        ELSE credits
          /\ Continue(p, [r EXCEPT !.pc = "rf_insert"])
    /\ UNCHANGED <<txs, now, pricingState, challenge>>

\* A refund that marks the original row REFUNDED instead of appending a REFUND row.
RefundInsertMarking(p) ==
    /\ req[p].pc = "rf_insert"
    /\ LET r == req[p]
           i == FindUsage(r.target)
       IN /\ txs' = [txs EXCEPT ![i].status = "REFUNDED"]
          /\ Continue(p, [r EXCEPT !.pc = "done", !.outcome = "TRUE"])
    /\ UNCHANGED <<credits, now, pricingState, challenge>>

\* engine.ts 110-120: the REFUND row.
RefundInsert(p) ==
    /\ req[p].pc = "rf_insert"
    /\ LET r == req[p]
       IN /\ txs' = Append(txs, Row(randomUUID, r.user, "REFUND", r.cost, NoHash, r.target))
          /\ Continue(p, [r EXCEPT !.pc = "done", !.outcome = "TRUE"])
    /\ UNCHANGED <<credits, now, pricingState, challenge>>

\* ------------------------------------------------------------------ mintCredits

\* POST /api/wallet/fund, index.ts 183-197: a request without walletAddress, amountCents
\* or txHash (amountCents 0 is falsy) is answered 400; any other goes to mintCredits.
StartFund(p, U, A, H, keep) ==
    /\ req[p].pc = "idle"
    /\ Room
    /\ \E u \in U, a \in A, h \in H :
         LET r == [Idle EXCEPT !.op = "fund", !.user = u, !.cost = a, !.hash = h,
                               !.pre = Snapshot(keep)]
         IN IF a = 0
            THEN Continue(p, [r EXCEPT !.pc = "done", !.outcome = "REJECTED"])
            ELSE Continue(p, [r EXCEPT !.pc = "mint_check"])
    /\ UNCHANGED <<credits, txs, now, pricingState, challenge>>

\* engine.ts 131-135: the idempotency check.
MintCheck(p) ==
    /\ req[p].pc = "mint_check"
    /\ LET r == req[p]
       IN IF ExistingDeposit(r.hash)
          THEN Continue(p, [r EXCEPT !.pc = "done", !.outcome = "TRUE"])
          ELSE Continue(p, [r EXCEPT !.pc = "mint_insert"])
    /\ UNCHANGED <<credits, txs, now, pricingState, challenge>>

\* engine.ts 137-147: the PURCHASE row.
MintInsert(p) ==
    /\ req[p].pc = "mint_insert"
    /\ LET r == req[p]
       IN /\ txs' = Append(txs, Row(randomUUID, r.user, "PURCHASE", r.cost, r.hash, NoId))
          /\ Continue(p, [r EXCEPT !.pc = "mint_update"])
    /\ UNCHANGED <<credits, now, pricingState, challenge>>

\* The account after { $inc: { balance, lifetimePurchased }, $setOnInsert: { lifetimeUsed: 0 } }
\* with upsert, engine.ts 150-158.
Upsert(account, amountCents) ==
    [exists |-> TRUE,
     balance |-> account.balance + amountCents,
     lifetimePurchased |-> account.lifetimePurchased + amountCents,
     lifetimeUsed |-> account.lifetimeUsed]

\* engine.ts 149-160: the balance upsert.
MintUpdate(p) ==
    /\ req[p].pc = "mint_update"
    /\ LET r == req[p]
       IN /\ credits' = [credits EXCEPT ![r.user] = Upsert(credits[r.user], r.cost)]
          /\ Continue(p, [r EXCEPT !.pc = "done", !.outcome = "TRUE"])
    /\ UNCHANGED <<txs, now, pricingState, challenge>>

\* ------------------------------------------------------------------ requirePayment

\* No 402 challenge outstanding at the client.
NoChallenge == [open |-> FALSE, cost |-> 0, deducted |-> 0, remaining |-> 0, txId |-> NoId]

\* index.ts 377-383: a request without walletAddress is answered 400.
UnlockNoWallet(p) ==
    /\ req[p].pc = "idle"
    /\ Continue(p, [Idle EXCEPT !.op = "unlock", !.pc = "done", !.outcome = "REJECTED"])
    /\ UNCHANGED <<credits, txs, now, pricingState, challenge>>

\* A middleware that calls processPayment on every request.
DeductsCreditsAlways(isSettling) == TRUE

\* index.ts 399: only a request that is not settling a previous 402 calls processPayment.
DeductsCredits(isSettling) == ~isSettling

\* index.ts 377-404: POST /unlock reaches the middleware. The price is looked up, and a
\* request without a payment-authorization header calls processPayment. A request
\* with the header presents the authorization the client signed for the challenge it
\* holds (one that pays nothing when it holds none).
StartUnlock(p, U, D, keep) ==
    /\ req[p].pc = "idle"
    /\ Room
    /\ \E u \in U, d \in D, useCreditsFirst \in BOOLEAN, isSettling \in BOOLEAN :
         LET ps == getCurrentPrice(u, d)
             r == [Idle EXCEPT !.op = "unlock", !.user = u, !.domain = d,
                               !.cost = ps[u].cents,
                               !.pref = IF useCreditsFirst THEN "CREDITS_FIRST" ELSE "DIRECT_USDC",
                               !.isSettling = isSettling,
                               !.auth = IF isSettling /\ challenge[u].open
                                        THEN challenge[u].remaining ELSE 0,
                               !.remaining = ps[u].cents,
                               !.pre = Snapshot(keep)]
         IN /\ pricingState' = ps
            /\ IF DeductsCredits(isSettling) THEN Continue(p, processPaymentEntry(r))
               ELSE Continue(p, [r EXCEPT !.pc = "rp_recover"])
    /\ UNCHANGED <<credits, txs, now, challenge>>

\* The USAGE row a resumed settlement takes for the prior attempt, index.ts 418: the
\* latest one of the identity if it is younger than the validity window, else none.
RecoveredUsage(userId) ==
    LET i == LatestUsage(userId)
    IN IF i # 0 /\ now - txs[i].createdAt < ValidityWindowMs THEN i ELSE 0

\* index.ts 405-423: a resumed settlement recovers the deduction from the ledger.
RPRecover(p) ==
    /\ req[p].pc = "rp_recover"
    /\ LET r == req[p]
           i == RecoveredUsage(r.user)
       IN IF i # 0
          THEN Continue(p, [r EXCEPT !.deducted = -txs[i].amount,
                                     !.remaining = r.cost - (-txs[i].amount),
                                     !.txId = txs[i].id,
                                     !.pc = "rp_gate"])
          ELSE Continue(p, [r EXCEPT !.pc = "rp_gate"])
    /\ UNCHANGED <<credits, txs, now, pricingState, challenge>>

\* A coverage test that never finds the cost covered.
FullyCoveredNever(remainingCostCents, isSettling) == FALSE

\* index.ts 426: remainingCostCents <= 0 && !isSettling.
FullyCovered(remainingCostCents, isSettling) == remainingCostCents <= 0 /\ ~isSettling

\* index.ts 425-429: credits covered the whole cost; next() runs the handler.
RPCovered(p) ==
    /\ req[p].pc = "rp_gate"
    /\ FullyCovered(req[p].remaining, req[p].isSettling)
    /\ Continue(p, [req[p] EXCEPT !.pc = "done", !.outcome = "FULLY_COVERED", !.usdcPaid = 0])
    /\ UNCHANGED <<credits, txs, now, pricingState, challenge>>

\* index.ts 431-471: a request without authorization gets the 402 challenge for the
\* residual; the client keeps it.
RPChallenge(p) ==
    /\ req[p].pc = "rp_gate"
    /\ ~FullyCovered(req[p].remaining, req[p].isSettling)
    /\ ~req[p].isSettling
    /\ LET r == req[p]
       IN /\ challenge' = [challenge EXCEPT ![r.user] =
                             [open |-> TRUE, cost |-> r.cost, deducted |-> r.deducted,
                              remaining |-> r.remaining, txId |-> r.txId]]
          /\ Continue(p, [r EXCEPT !.pc = "done", !.outcome = "CHALLENGE"])
    /\ UNCHANGED <<credits, txs, now, pricingState>>

\* index.ts 462-471: the rail does not accept the presented authorization.
RPPaymentError(p) ==
    /\ req[p].pc = "rp_gate"
    /\ req[p].isSettling
    /\ Continue(p, [req[p] EXCEPT !.pc = "done", !.outcome = "PAYMENT_ERROR"])
    /\ UNCHANGED <<credits, txs, now, pricingState, challenge>>

\* The "exact" scheme of the rail verifies an authorization only for the price the
\* route demands, index.ts 437-441, and only while it is unspent.
Verifiable(r) ==
    /\ r.isSettling
    /\ challenge[r.user].open
    /\ r.auth > 0
    /\ r.auth = challenge[r.user].remaining
    /\ r.auth = r.remaining

\* index.ts 462, 473: the rail verified the authorization.
RPVerified(p) ==
    /\ req[p].pc = "rp_gate"
    /\ Verifiable(req[p])
    /\ Continue(p, [req[p] EXCEPT !.pc = "rp_settle"])
    /\ UNCHANGED <<credits, txs, now, pricingState, challenge>>

\* index.ts 474-478: processSettlement failed; the request is answered 402.
RPSettleFailed(p) ==
    /\ req[p].pc = "rp_settle"
    /\ Continue(p, [req[p] EXCEPT !.pc = "done", !.outcome = "SETTLEMENT_FAILED"])
    /\ UNCHANGED <<credits, txs, now, pricingState, challenge>>

\* index.ts 474: processSettlement succeeded; the authorization is spent.
RPSettled(p) ==
    /\ req[p].pc = "rp_settle"
    /\ Verifiable(req[p])
    /\ challenge' = [challenge EXCEPT ![req[p].user].open = FALSE]
    /\ Continue(p, [req[p] EXCEPT !.pc = "rp_record"])
    /\ UNCHANGED <<credits, txs, now, pricingState>>

\* index.ts 462-505: the rail answers neither payment-error nor payment-verified (its
\* third result, no payment demanded for the route); the final next() runs the handler
\* with req.payment unset.
RPNoPaymentRequired(p) ==
    /\ req[p].pc = "rp_gate"
    /\ ~FullyCovered(req[p].remaining, req[p].isSettling)
    /\ Continue(p, [req[p] EXCEPT !.pc = "done", !.outcome = "PASSED", !.deducted = 0,
                                  !.usdcPaid = 0])
    /\ UNCHANGED <<credits, txs, now, pricingState, challenge>>

\* A middleware that lets the caller through without recording the settlement.
RPRecordSkipped(p) ==
    /\ req[p].pc = "rp_record"
    /\ Continue(p, [req[p] EXCEPT !.pc = "done", !.outcome = "RECORDED",
                                  !.usdcPaid = req[p].remaining])
    /\ UNCHANGED <<credits, txs, now, pricingState, challenge>>

\* index.ts 480-502: the DIRECT_USDC row, req.payment, and next() runs the handler.
RPRecord(p) ==
    /\ req[p].pc = "rp_record"
    /\ LET r == req[p]
           id == IF r.txId # NoId THEN r.txId ELSE randomUUID
       IN /\ txs' = Append(txs, Row(id, r.user, "DIRECT_USDC", r.remaining, SettlementHash, NoId))
          /\ Continue(p, [r EXCEPT !.pc = "done", !.outcome = "RECORDED",
                                   !.usdcPaid = r.remaining])
    /\ UNCHANGED <<credits, now, pricingState, challenge>>

\* ------------------------------------------------------------------ handleX402Request

\* x402Express.ts 26-31: a request without the X-Wallet-Address header is answered 400.
X402NoWallet(p) ==
    /\ req[p].pc = "idle"
    /\ Continue(p, [Idle EXCEPT !.op = "x402", !.pc = "done", !.outcome = "REJECTED"])
    /\ UNCHANGED <<credits, txs, now, pricingState, challenge>>

\* x402Express.ts 26-42: the price is looked up and processPayment is called with
\* CREDITS_FIRST on every request, one that presents an authorization included.
StartX402(p, U, D, keep) ==
    /\ req[p].pc = "idle"
    /\ Room
    /\ \E u \in U, d \in D, isSettling \in BOOLEAN :
         LET ps == getCurrentPrice(u, d)
             r == [Idle EXCEPT !.op = "x402", !.user = u, !.domain = d,
                               !.cost = ps[u].cents, !.pref = "CREDITS_FIRST",
                               !.isSettling = isSettling,
                               !.auth = IF isSettling /\ challenge[u].open
                                        THEN challenge[u].remaining ELSE 0,
                               !.remaining = ps[u].cents,
                               !.pre = Snapshot(keep)]
         IN /\ pricingState' = ps
            /\ Continue(p, processPaymentEntry(r))
    /\ UNCHANGED <<credits, txs, now, challenge>>

\* x402Express.ts 44-58: credits covered the whole cost; the data is returned.
HXCovered(p) ==
    /\ req[p].pc = "hx_gate"
    /\ req[p].remaining <= 0
    /\ Continue(p, [req[p] EXCEPT !.pc = "done", !.outcome = "FULLY_COVERED", !.usdcPaid = 0])
    /\ UNCHANGED <<credits, txs, now, pricingState, challenge>>

\* x402Express.ts 60-121: a request without authorization gets the 402 challenge for
\* the residual; the client keeps it.
HXChallenge(p) ==
    /\ req[p].pc = "hx_gate"
    /\ req[p].remaining > 0
    /\ ~req[p].isSettling
    /\ LET r == req[p]
       IN /\ challenge' = [challenge EXCEPT ![r.user] =
                             [open |-> TRUE, cost |-> r.cost, deducted |-> r.deducted,
                              remaining |-> r.remaining, txId |-> r.txId]]
          /\ Continue(p, [r EXCEPT !.pc = "done", !.outcome = "CHALLENGE"])
    /\ UNCHANGED <<credits, txs, now, pricingState>>

\* x402Express.ts 105-121: the rail does not accept the presented authorization.
HXPaymentError(p) ==
    /\ req[p].pc = "hx_gate"
    /\ req[p].remaining > 0
    /\ req[p].isSettling
    /\ Continue(p, [req[p] EXCEPT !.pc = "done", !.outcome = "PAYMENT_ERROR"])
    /\ UNCHANGED <<credits, txs, now, pricingState, challenge>>

\* x402Express.ts 105, 123: the rail verified the authorization.
HXVerified(p) ==
    /\ req[p].pc = "hx_gate"
    /\ req[p].remaining > 0
    /\ Verifiable(req[p])
    /\ Continue(p, [req[p] EXCEPT !.pc = "hx_settle"])
    /\ UNCHANGED <<credits, txs, now, pricingState, challenge>>

\* x402Express.ts 124-134: processSettlement failed; the request is answered 402.
HXSettleFailed(p) ==
    /\ req[p].pc = "hx_settle"
    /\ Continue(p, [req[p] EXCEPT !.pc = "done", !.outcome = "SETTLEMENT_FAILED"])
    /\ UNCHANGED <<credits, txs, now, pricingState, challenge>>

\* x402Express.ts 124-156: processSettlement succeeded; the data is returned and no
\* ledger row is written.
HXSettled(p) ==
    /\ req[p].pc = "hx_settle"
    /\ Verifiable(req[p])
    /\ challenge' = [challenge EXCEPT ![req[p].user].open = FALSE]
    /\ Continue(p, [req[p] EXCEPT !.pc = "done", !.outcome = "SETTLED",
                                  !.usdcPaid = req[p].remaining])
    /\ UNCHANGED <<credits, txs, now, pricingState>>

\* ------------------------------------------------------------------ negotiation

\* Topics the topic pattern extracts from a message ("none": no match).
Topics == {"none", "react"}
\* The action of a parsed oracle reply ("other": a string outside the fixed set);
\* "unparsed" stands for a reply parseAIResponse rejects.
OracleActions == {"quote_price", "pushback", "discount", "floor", "chat", "other"}
\* The suggestedPriceCents of a reply (NoSuggestedPrice: null).
NoSuggestedPrice == 0
SuggestedPrices == {NoSuggestedPrice, 1, 20}
NoSuggestion == {NoSuggestedPrice}

\* A check of the floor that accepts every price.
updatePriceSuccessUnchecked(ps, walletAddress, newPriceCents) == ps[walletAddress].exists

\* An update that is always refused.
updatePriceSuccessNever(ps, walletAddress, newPriceCents) == FALSE

\* A counter of complaints shared by every identity.
incrementNegotiationAttemptsShared(ps, walletAddress) ==
    [w \in Wallets |->
       IF ps[w].exists THEN [ps[w] EXCEPT !.negotiationAttempts = @ + 1] ELSE ps[w]]

\* pricingState after incrementNegotiationAttempts(walletAddress).
incrementNegotiationAttempts(ps, walletAddress) ==
    IF ~ps[walletAddress].exists THEN ps
    ELSE [ps EXCEPT ![walletAddress].negotiationAttempts = @ + 1]

\* updatePrice(walletAddress, newPriceCents) succeeds.
updatePriceSuccess(ps, walletAddress, newPriceCents) ==
    /\ ps[walletAddress].exists
    /\ ~(newPriceCents < getFloorPrice(ps[walletAddress].domain))

\* pricingState after updatePrice(walletAddress, newPriceCents).
updatePrice(ps, walletAddress, newPriceCents) ==
    IF updatePriceSuccess(ps, walletAddress, newPriceCents)
    THEN [ps EXCEPT ![walletAddress].cents = newPriceCents, ![walletAddress].round = @ + 1]
    ELSE ps

\* pricingState after setTopic(walletAddress, topic).
setTopic(ps, walletAddress, topic) ==
    IF ps[walletAddress].exists THEN [ps EXCEPT ![walletAddress].topic = topic] ELSE ps

\* part_000 391-395: a chat message arrives; the turn reads the pricing state and then
\* waits for the oracle. A turn starts only while negotiationAttempts is below limit.
StartChat(p, U, D, limit, keep) ==
    /\ req[p].pc = "idle"
    /\ \E u \in U, d \in D :
         LET ps == getCurrentPrice(u, d)
         IN /\ ps[u].negotiationAttempts < limit
            /\ pricingState' = ps
            /\ Continue(p, [Idle EXCEPT !.op = "chat", !.pc = "na_reply", !.user = u,
                                        !.domain = d, !.cost = ps[u].cents,
                                        !.attempts = ps[u].negotiationAttempts,
                                        !.floor = getFloorPrice(d),
                                        !.finalPrice = ps[u].cents,
                                        !.pre = Snapshot(keep)])
    /\ UNCHANGED <<credits, txs, now, challenge>>

\* A turn that counts a reply it cannot parse as a complaint.
AgentUnparsedCounted(p) ==
    /\ req[p].pc = "na_reply"
    /\ pricingState' = incrementNegotiationAttempts(pricingState, req[p].user)
    /\ Continue(p, [req[p] EXCEPT !.pc = "done", !.outcome = "unparsed"])
    /\ UNCHANGED <<credits, txs, now, challenge>>

\* part_000 434-444: the reply cannot be parsed; the current price is returned.
AgentUnparsed(p) ==
    /\ req[p].pc = "na_reply"
    /\ Continue(p, [req[p] EXCEPT !.pc = "done", !.outcome = "unparsed"])
    /\ UNCHANGED <<credits, txs, now, pricingState, challenge>>

\* A discount priced by the oracle: its suggestion, when it makes one.
discountPriceSuggested(domain, cents, suggestedPriceCents) ==
    IF suggestedPriceCents # NoSuggestedPrice THEN suggestedPriceCents
    ELSE getNextPrice(domain, cents)

\* part_000 487: nextPrice = getNextPrice(domain, currentState.cents); the reply's
\* suggestedPriceCents is not read.
discountPrice(domain, cents, suggestedPriceCents) == getNextPrice(domain, cents)

\* A turn that grants the discount on the first complaint.
DowngradesDiscountNever(attempts) == FALSE

\* part_000 478-479: a discount at negotiationAttempts 0 is answered as a pushback.
DowngradesDiscount(attempts) == attempts = 0

\* A floor action that sets the request's floor whatever the current price is.
ClampsToFloorAlways(cents, floor) == TRUE

\* part_000 513: currentState.cents > floor.
ClampsToFloor(cents, floor) == cents > floor

\* part_000 451-525: the switch on aiResponse.action: [ps, finalPrice] after the turn of
\* request r with the oracle's action and the topic extracted from the message.
NegotiationTurn(r, action, topic, suggestedPriceCents) ==
    LET w == r.user
        bumped == incrementNegotiationAttempts(pricingState, w)
        nextPrice == discountPrice(r.domain, r.cost, suggestedPriceCents)
    IN CASE action = "quote_price" ->
              [ps |-> IF topic # "none" THEN setTopic(pricingState, w, topic) ELSE pricingState,
               finalPrice |-> r.cost]
         [] action = "pushback" ->
              [ps |-> bumped, finalPrice |-> r.cost]
         [] action = "discount" /\ DowngradesDiscount(r.attempts) ->
              [ps |-> bumped, finalPrice |-> r.cost]
         [] action = "discount" /\ ~DowngradesDiscount(r.attempts) /\ nextPrice < r.cost ->
              [ps |-> updatePrice(bumped, w, nextPrice),
               finalPrice |-> IF updatePriceSuccess(bumped, w, nextPrice)
                              THEN nextPrice ELSE r.cost]
         [] action = "discount" /\ ~DowngradesDiscount(r.attempts) /\ ~(nextPrice < r.cost) ->
              [ps |-> bumped, finalPrice |-> r.floor]
         [] action = "floor" ->
              [ps |-> IF ClampsToFloor(r.cost, r.floor) THEN updatePrice(bumped, w, r.floor)
                      ELSE bumped,
               finalPrice |-> r.floor]
         [] OTHER ->
              [ps |-> pricingState, finalPrice |-> r.cost]

\* part_000 446-535: the oracle's reply is parsed and the backend applies its rules.
\* The reply's suggestedPriceCents is read nowhere.
AgentReply(p, T, S) ==
    /\ req[p].pc = "na_reply"
    /\ \E action \in OracleActions, topic \in T, suggestedPriceCents \in S :
         LET t == NegotiationTurn(req[p], action, topic, suggestedPriceCents)
         IN /\ pricingState' = t.ps
            /\ Continue(p, [req[p] EXCEPT !.pc = "done", !.outcome = action,
                                          !.finalPrice = t.finalPrice])
    /\ UNCHANGED <<credits, txs, now, challenge>>

\* index.ts 45-57, 80-92: POST /chat/agent and POST /chat/stream answer 400 to a
\* request without walletAddress.
ChatNoWallet(p) ==
    /\ req[p].pc = "idle"
    /\ Continue(p, [Idle EXCEPT !.op = "chat", !.pc = "done", !.outcome = "REJECTED"])
    /\ UNCHANGED <<credits, txs, now, pricingState, challenge>>

\* index.ts 126-138: POST /chat without walletAddress runs the agent for 'anonymous'.
LegacyChatNoWallet(p, D, limit, keep) == StartChat(p, {Anonymous}, D, limit, keep)

\* index.ts 24-31: GET /api/price without a wallet address is refused.
PriceNoWallet(p) ==
    /\ req[p].pc = "idle"
    /\ Continue(p, [Idle EXCEPT !.op = "price", !.pc = "done", !.outcome = "REJECTED"])
    /\ UNCHANGED <<credits, txs, now, pricingState, challenge>>

\* index.ts 24-42: GET /api/price/:walletAddress?domain= answers the cents and the
\* round getCurrentPrice returns.
PriceQuery(p, U, D, keep) ==
    /\ req[p].pc = "idle"
    /\ \E u \in U, d \in D :
         LET ps == getCurrentPrice(u, d)
         IN /\ pricingState' = ps
            /\ Continue(p, [Idle EXCEPT !.op = "price", !.pc = "done", !.outcome = "PRICE",
                                        !.user = u, !.domain = d, !.cost = ps[u].cents,
                                        !.round = ps[u].round,
                                        !.attempts = ps[u].negotiationAttempts,
                                        !.pre = Snapshot(keep)])
    /\ UNCHANGED <<credits, txs, now, challenge>>

\* ------------------------------------------------------------------ wallet history

\* GET /api/wallet/history answers at most HistoryLimit rows.
HistoryLimit == 20

\* find({ userId }).sort({ createdAt: -1 }).limit(20): the rows of the identity, the
\* most recent first. createdAt grows with the insertion order.
RECURSIVE HistoryOf(_, _)
HistoryOf(rows, userId) ==
    IF rows = <<>> THEN <<>>
    ELSE LET older == HistoryOf(SubSeq(rows, 1, Len(rows) - 1), userId)
             last == rows[Len(rows)]
         IN IF last.userId = userId THEN <<last>> \o older ELSE older

\* GET /api/wallet/history/:walletAddress, index.ts 170-181.
HistoryQuery(p, U) ==
    /\ req[p].pc = "idle"
    /\ \E u \in U :
         LET history == HistoryOf(txs, u)
         IN Continue(p, [Idle EXCEPT !.op = "history", !.pc = "done", !.user = u,
                                     !.history = SubSeq(history, 1,
                                                        Min(Len(history), HistoryLimit)),
                                     !.outcome = "OK"])
    /\ UNCHANGED <<credits, txs, now, pricingState, challenge>>

\* ------------------------------------------------------------------ verifyTransaction

\* Addresses as the chain and the caller spell them: "U1" is "u1" in another letter case.
Addresses == {"u1", "U1", "u2"}

\* String.prototype.toLowerCase on an address.
toLowerCase(a) == IF a = "U1" THEN "u1" ELSE a

\* expectedUnits = BigInt(expectedCents) * 10000n.
UnitsPerCent == 10000
expectedUnits(expectedCents) == expectedCents * UnitsPerCent

\* A receipt carries at most MaxLogs logs. A log is its first topic (the Transfer
\* signature or another event), the address in topics[1] and the value in its data.
MaxLogs == 2
LogTopics == {"Transfer", "Approval"}
LogValues == {0, UnitsPerCent}
Logs == [topic : LogTopics, from : Addresses, data : LogValues]
Receipts == UNION {[1..n -> Logs] : n \in 0..MaxLogs}

\* What the chain can answer about a hash: nothing (the lookup throws), or a receipt
\* and a transaction.
ExpectedCents == {0, 1, 2}
NativeValues == {0, 1}
ChainAnswers ==
    {NoChain} \cup [found : {TRUE}, status : {"success", "reverted"}, from : Addresses,
                    value : NativeValues, logs : Receipts]

\* paidAmountRaw after the loop over receipt.logs: the data of every Transfer log whose
\* topics[1] is userWallet, summed.
RECURSIVE paidAmountRaw(_, _)
paidAmountRaw(logs, userWallet) ==
    IF logs = <<>> THEN 0
    ELSE LET log == Head(logs)
             paid == IF /\ log.topic = "Transfer"
                        /\ toLowerCase(log.from) = toLowerCase(userWallet)
                     THEN log.data ELSE 0
         IN paid + paidAmountRaw(Tail(logs), userWallet)

\* verifyTransaction(txHash, expectedCents, userWallet), tx being what the chain
\* answers about txHash.
verifyTransaction(tx, expectedCents, userWallet) ==
    IF ~tx.found THEN FALSE
    ELSE IF tx.status # "success" THEN FALSE
    ELSE IF toLowerCase(tx.from) # toLowerCase(userWallet) THEN FALSE
    ELSE IF paidAmountRaw(tx.logs, userWallet) >= expectedUnits(expectedCents) THEN TRUE
    ELSE IF tx.value > 0 THEN TRUE
    ELSE FALSE

\* A caller asks whether txHash paid expectedCents from userWallet.
StartVerify(p) ==
    /\ req[p].pc = "idle"
    /\ \E userWallet \in Addresses, expectedCents \in ExpectedCents, tx \in ChainAnswers :
          Continue(p, [Idle EXCEPT !.op = "verify", !.pc = "vt_verify",
                                   !.user = userWallet, !.cost = expectedCents,
                                   !.chain = tx])
    /\ UNCHANGED <<credits, txs, now, pricingState, challenge>>

\* The receipt and the transaction are read and the answer is computed.
VerifyAnswer(p) ==
    /\ req[p].pc = "vt_verify"
    /\ LET r == req[p]
       IN Continue(p, [r EXCEPT !.pc = "done",
                                !.outcome = IF verifyTransaction(r.chain, r.cost, r.user)
                                            THEN "TRUE" ELSE "FALSE"])
    /\ UNCHANGED <<credits, txs, now, pricingState, challenge>>

\* ------------------------------------------------------------------ system

\* Time passes, and the deduction of every challenge still outstanding is given back.
TickRefundingExpired ==
    /\ now < MaxTicks * ValidityWindowMs
    /\ now' = now + ValidityWindowMs
    /\ credits' = [u \in Users |->
                     IF challenge[u].open /\ credits[u].exists
                     THEN [credits[u] EXCEPT !.balance = @ + challenge[u].deducted]
                     ELSE credits[u]]
    /\ UNCHANGED <<txs, pricingState, challenge, req>>

\* Time passes: one validity window.
Tick ==
    /\ now < MaxTicks * ValidityWindowMs
    /\ now' = now + ValidityWindowMs
    /\ UNCHANGED <<credits, txs, pricingState, challenge, req>>

\* The response is sent; the slot is free for the next request.
Return(p) ==
    /\ req[p].pc = "done"
    /\ Continue(p, Idle)
    /\ UNCHANGED <<credits, txs, now, pricingState, challenge>>

\* The state after construction: empty collections, empty pricing map.
Init ==
    /\ credits = [u \in Users |-> NoAccount]
    /\ txs = <<>>
    /\ now = 0
    /\ pricingState = [w \in Wallets |-> NoPricing]
    /\ challenge = [u \in Users |-> NoChallenge]
    /\ req = [p \in Procs |-> Idle]

\* The steps of processPayment, of refundCredits and of mintCredits once called.
DeductStep(p) == PPRead(p) \/ PPUpdate(p) \/ PPInsert(p)
RefundStep(p) == RefundFind(p) \/ RefundCheck(p) \/ RefundUpdate(p) \/ RefundInsert(p)
MintStep(p) == MintCheck(p) \/ MintInsert(p) \/ MintUpdate(p)

\* The steps of the payment middleware once started.
PaymentStep(p) ==
    \/ RPRecover(p) \/ RPCovered(p) \/ RPChallenge(p) \/ RPPaymentError(p)
    \/ RPVerified(p) \/ RPSettleFailed(p) \/ RPSettled(p) \/ RPRecord(p)

\* The steps of a negotiation turn once started.
AgentStep(p, T, S) == AgentUnparsed(p) \/ AgentReply(p, T, S)

\* The identity and the domain the single-identity systems take their requests from.
OneUser == {"u1"}
OneDomain == {"acme.com"}
NoTopic == {"none"}
OneHash == {1}

\* The payment system: purchases, resumed settlements and fundings of one identity
\* run concurrently while time passes.
Next ==
    \/ \E p \in MainProcs :
         \/ StartFund(p, OneUser, Deposits, OneHash, FALSE) \/ MintStep(p)
         \/ UnlockNoWallet(p) \/ StartUnlock(p, OneUser, OneDomain, FALSE)
         \/ DeductStep(p) \/ PaymentStep(p)
         \/ Return(p)
    \/ Tick

Spec == Init /\ [][Next]_vars

\* The ledger alone: the operations of engine.ts called concurrently.
NextLedger ==
    \E p \in MainProcs :
       \/ StartDeduct(p, OneUser, FALSE) \/ DeductStep(p)
       \/ StartRefund(p, FALSE) \/ RefundStep(p)
       \/ StartFund(p, OneUser, FundAmounts, FundHashes, FALSE) \/ MintStep(p)
       \/ Return(p)

SpecLedger == Init /\ [][NextLedger]_vars

\* The ledger alone with one call at a time, for any identity: every call runs to its
\* answer before the next one starts, and remembers the store it started from.
NextLedgerSeq ==
    \E p \in SeqProcs :
       \/ StartDeduct(p, Users, TRUE) \/ DeductStep(p)
       \/ StartRefund(p, TRUE) \/ RefundStep(p)
       \/ StartFund(p, Users, FundAmounts, FundHashes, TRUE) \/ MintStep(p)
       \/ Return(p)

SpecLedgerSeq == Init /\ [][NextLedgerSeq]_vars

\* Purchases, settlements, fundings and negotiation turns of one identity with one
\* request at a time, while time passes.
NextSeq ==
    \/ \E p \in SeqProcs :
         \/ StartFund(p, OneUser, Deposits, OneHash, TRUE) \/ MintStep(p)
         \/ UnlockNoWallet(p) \/ StartUnlock(p, OneUser, OneDomain, TRUE)
         \/ DeductStep(p) \/ PaymentStep(p)
         \/ StartChat(p, OneUser, OneDomain, MaxAttempts, TRUE)
         \/ AgentStep(p, NoTopic, NoSuggestion)
         \/ Return(p)
    \/ Tick

SpecSeq == Init /\ [][NextSeq]_vars

\* The steps of handleX402Request once started.
X402Step(p) ==
    \/ HXCovered(p) \/ HXChallenge(p) \/ HXPaymentError(p)
    \/ HXVerified(p) \/ HXSettleFailed(p) \/ HXSettled(p)

\* The two settlement entry points, the payment middleware and handleX402Request, with
\* one request at a time.
NextSettle ==
    \E p \in SeqProcs :
       \/ StartFund(p, OneUser, Deposits, OneHash, TRUE) \/ MintStep(p)
       \/ UnlockNoWallet(p) \/ StartUnlock(p, OneUser, OneDomain, TRUE)
       \/ X402NoWallet(p) \/ StartX402(p, OneUser, OneDomain, TRUE)
       \/ DeductStep(p) \/ PaymentStep(p) \/ X402Step(p)
       \/ Return(p)

SpecSettle == Init /\ [][NextSettle]_vars

\* Negotiation turns end once negotiationAttempts reached MaxComplaints.
MaxComplaints == 4

\* The pricing state machine alone: price queries and negotiation turns of one identity
\* under either domain, and the requests without identity of every entry point, one
\* request at a time.
NextChat ==
    \E p \in SeqProcs :
       \/ PriceNoWallet(p) \/ PriceQuery(p, OneUser, Domains, TRUE)
       \/ UnlockNoWallet(p) \/ X402NoWallet(p)
       \/ ChatNoWallet(p) \/ LegacyChatNoWallet(p, OneDomain, MaxAttempts, TRUE)
       \/ StartChat(p, OneUser, Domains, MaxComplaints, TRUE)
       \/ AgentStep(p, Topics, SuggestedPrices)
       \/ Return(p)

SpecChat == Init /\ [][NextChat]_vars

\* Negotiation turns and price queries of one identity under either domain, running
\* concurrently: a turn reads the state, waits for the oracle, then applies the reply.
NextChatConcurrent ==
    \E p \in MainProcs :
       \/ PriceQuery(p, OneUser, Domains, FALSE)
       \/ StartChat(p, OneUser, Domains, MaxAttempts, FALSE)
       \/ AgentStep(p, NoTopic, SuggestedPrices)
       \/ Return(p)

SpecChatConcurrent == Init /\ [][NextChatConcurrent]_vars

\* Balances an account is funded with before concurrent deductions start.
DeductBalances == {0, 6, 10}

\* One identity funded by one confirmed deposit (none for a balance of 0).
InitDeduct ==
    \E b \in DeductBalances :
       /\ credits = [u \in Users |->
                       IF u = "u1" /\ b > 0
                       THEN [exists |-> TRUE, balance |-> b, lifetimePurchased |-> b,
                             lifetimeUsed |-> 0]
                       ELSE NoAccount]
       /\ txs = IF b > 0
                THEN <<[id |-> 1, userId |-> "u1", type |-> "PURCHASE", amount |-> b,
                        txHash |-> 1, status |-> "CONFIRMED", originalTxId |-> NoId,
                        createdAt |-> 0]>>
                ELSE <<>>
       /\ now = 0
       /\ pricingState = [w \in Wallets |-> NoPricing]
       /\ challenge = [u \in Users |-> NoChallenge]
       /\ req = [p \in Procs |-> Idle]

\* Concurrent deductions only: any number of request slots call processPayment.
NextDeduct ==
    \E p \in Procs : StartDeduct(p, Users, FALSE) \/ DeductStep(p) \/ Return(p)

SpecDeduct == InitDeduct /\ [][NextDeduct]_vars

\* Concurrent deductions of one identity in two request slots, where every call that
\* has started takes its next step sooner or later: the event loop resumes every
\* pending await.
NextDeductFair ==
    \E p \in MainProcs : StartDeduct(p, OneUser, FALSE) \/ DeductStep(p) \/ Return(p)

SpecDeductFair ==
    InitDeduct /\ [][NextDeductFair]_vars /\ \A p \in MainProcs : WF_vars(DeductStep(p))

\* Every operation that reaches the ledger, running concurrently for one identity:
\* fundings, purchases with their deductions and settlements, refunds, history queries.
NextStore ==
    \E p \in MainProcs :
       \/ StartFund(p, OneUser, Deposits, OneHash, FALSE) \/ MintStep(p)
       \/ UnlockNoWallet(p) \/ StartUnlock(p, OneUser, OneDomain, FALSE)
       \/ DeductStep(p) \/ PaymentStep(p)
       \/ StartRefund(p, FALSE) \/ RefundStep(p)
       \/ HistoryQuery(p, OneUser)
       \/ Return(p)

SpecStore == Init /\ [][NextStore]_vars

\* The payment middleware with every result type of the rail, the one that demands no
\* payment included, one request at a time.
NextRail ==
    \/ \E p \in SeqProcs :
         \/ StartFund(p, OneUser, Deposits, OneHash, TRUE) \/ MintStep(p)
         \/ UnlockNoWallet(p) \/ StartUnlock(p, OneUser, OneDomain, TRUE)
         \/ DeductStep(p) \/ PaymentStep(p) \/ RPNoPaymentRequired(p)
         \/ Return(p)
    \/ Tick

SpecRail == Init /\ [][NextRail]_vars

\* The amount the identities of the system below deposit.
OneDeposit == {3}

\* Every operation on the store and on the pricing state, one request at a time, while
\* a second identity holds an account and a pricing state of its own: both identities
\* fund and look up their price; the first one also purchases, with deduction and
\* settlement, is refunded and negotiates.
NextFrame ==
    \E p \in SeqProcs :
       \/ StartFund(p, Users, OneDeposit, FundHashes, FALSE) \/ MintStep(p)
       \/ StartUnlock(p, OneUser, OneDomain, FALSE)
       \/ DeductStep(p) \/ PaymentStep(p)
       \/ StartRefund(p, FALSE) \/ RefundStep(p)
       \/ PriceQuery(p, Users, OneDomain, FALSE)
       \/ StartChat(p, OneUser, OneDomain, MaxAttempts, FALSE)
       \/ AgentStep(p, NoTopic, NoSuggestion)
       \/ Return(p)

SpecFrame == Init /\ [][NextFrame]_vars

\* verifyTransaction alone, asked about any hash.
NextVerify ==
    \E p \in SeqProcs : StartVerify(p) \/ VerifyAnswer(p) \/ Return(p)

SpecVerify == Init /\ [][NextVerify]_vars

\* ------------------------------------------------------------------ ledger totals

\* The CONFIRMED rows of an identity of one type.
RowsOf(userId, type) ==
    {k \in 1..Len(txs) : txs[k].userId = userId /\ txs[k].type = type /\ txs[k].status = "CONFIRMED"}

\* Credits handed out to an identity, and credits funded or given back to it.
UsageTotal(userId) == -SumAmounts(RowsOf(userId, "USAGE"))
FundedTotal(userId) == SumAmounts(RowsOf(userId, "PURCHASE")) + SumAmounts(RowsOf(userId, "REFUND"))

\* The CONFIRMED rows that carry an external transaction reference.
RowsWithHash(txHash) == {k \in 1..Len(txs) : txs[k].txHash = txHash /\ txs[k].status = "CONFIRMED"}

\* The REFUND rows that reference a USAGE transaction id.
RefundsOf(id) == {k \in 1..Len(txs) : txs[k].type = "REFUND" /\ txs[k].originalTxId = id}

\* ------------------------------------------------------------------ claims

\* C1: for any number of concurrent processPayment(CREDITS_FIRST) calls, under every
\* interleaving of their read, conditional update and row insert, the credits handed
\* out never exceed what was funded (sum of |USAGE| <= sum of PURCHASE and REFUND),
\* and the stored balance is never below 0.
C1_ConcurrentDeductsNeverOverspend ==
    \A u \in Users :
       /\ UsageTotal(u) <= FundedTotal(u)
       /\ credits[u].balance >= 0

\* C1 witness: one call has deducted and is about to insert its row while another,
\* which read the balance before that deduction, is about to lose the race.
C1_Witness ==
    \E p \in Procs, q \in Procs :
       /\ p # q
       /\ req[p].pc = "pp_insert" /\ req[q].pc = "pp_update"
       /\ req[p].user = req[q].user
       /\ req[q].toDeduct > credits[req[q].user].balance

\* C2: the balance of every identity is >= 0 in every reachable state, after any
\* sequence of fundings (with any amountCents the endpoint accepts), deductions and
\* refunds.
C2_BalanceNeverNegative == \A u \in Users : credits[u].balance >= 0

\* C3: mint called twice in a row with the same externalTxRef credits balance and
\* lifetimePurchased once, leaves exactly one CONFIRMED PURCHASE row with that
\* reference, and both calls return success: a call that finds the reference in the
\* ledger changes nothing, a call that does not credits the amount and appends a row.
C3_MintTwiceCreditsOnce ==
    \A p \in SeqProcs :
       LET r == req[p]
           before == r.pre.txs
           dup == \E i \in 1..Len(before) :
                     before[i].txHash = r.hash /\ before[i].status = "CONFIRMED"
           a == r.pre.credits[r.user]
       IN (r.op = "fund" /\ r.pc = "done" /\ r.outcome # "REJECTED") =>
            /\ r.outcome = "TRUE"
            /\ Cardinality({i \in RowsWithHash(r.hash) : txs[i].type = "PURCHASE"}) = 1
            /\ IF dup
               THEN credits = r.pre.credits /\ txs = before
               ELSE /\ credits = [r.pre.credits EXCEPT ![r.user] =
                                    [exists |-> TRUE,
                                     balance |-> a.balance + r.cost,
                                     lifetimePurchased |-> a.lifetimePurchased + r.cost,
                                     lifetimeUsed |-> a.lifetimeUsed]]
                    /\ Len(txs) = Len(before) + 1
                    /\ SubSeq(txs, 1, Len(before)) = before

\* C3 witness: the second of two mint calls with the same identity, amount and
\* reference has returned.
C3_Witness ==
    \E p \in SeqProcs :
       /\ req[p].op = "fund" /\ req[p].pc = "done" /\ req[p].outcome = "TRUE"
       /\ \E i \in 1..Len(req[p].pre.txs) :
            /\ req[p].pre.txs[i].txHash = req[p].hash
            /\ req[p].pre.txs[i].userId = req[p].user
            /\ req[p].pre.txs[i].amount = req[p].cost
       /\ credits[req[p].user].balance = req[p].cost

\* C4: in every reachable state, also when two mint calls with the same externalTxRef
\* interleave between the existence check and the insert, at most one CONFIRMED row
\* carries a given externalTxRef.
C4_OneConfirmedRowPerTxRef ==
    \A h \in FundHashes : Cardinality(RowsWithHash(h)) <= 1

\* C5: when the external settlement fails after credits were deducted for the
\* purchase, the failure is answered only after refund was applied to the prior USAGE
\* transaction: a REFUND row of +deducted references it.
C5_FailedSettlementRefundsCredits ==
    \A p \in Procs :
       LET r == req[p]
       IN (r.op = "unlock" /\ r.pc = "done" /\ r.outcome = "SETTLEMENT_FAILED"
           /\ r.deducted > 0) =>
            \E i \in RefundsOf(r.txId) : txs[i].amount = r.deducted

\* C6: a request to the payment middleware that carries a payment authorization never
\* deducts credits: no step of that request changes any balance or appends a USAGE
\* row, whatever the balance and the price are.
C6_ResumedSettlementNeverDeducts ==
    [][\A p \in Procs :
         ((req[p].isSettling \/ req'[p].isSettling) /\ req'[p] # req[p]) =>
            /\ credits' = credits
            /\ \A i \in 1..Len(txs') : i > Len(txs) => txs'[i].type # "USAGE"
            /\ Len(txs') >= Len(txs)]_vars

\* C6 witness: a resumed settlement was recorded for an identity that had credits
\* left to deduct.
C6_Witness ==
    \E p \in Procs :
       /\ req[p].isSettling /\ req[p].pc = "done" /\ req[p].outcome = "RECORDED"
       /\ credits[req[p].user].balance > 0

\* C7: on a resumed settlement the recovered creditsDeducted equals the credits
\* deducted when the 402 challenge was issued and the residual equals the residual of
\* that challenge, for every history of purchases, price change or delay in between.
C7_ResumeRecoversPriorAttempt ==
    \A p \in Procs :
       LET r == req[p]
       IN (r.op = "unlock" /\ r.isSettling /\ r.auth > 0
           /\ r.pc \in {"rp_gate", "rp_settle", "rp_record"}) =>
            /\ r.deducted = challenge[r.user].deducted
            /\ r.remaining = challenge[r.user].remaining

\* C8: after a CREDITS_FIRST request of cost c deducted b (0 < b < c) and issued the
\* challenge for c - b, a verified external settlement for that residual is recorded
\* with creditsDeducted + usdcPaid = c.
C8_RecordedTotalIsCost ==
    \A p \in Procs :
       LET r == req[p]
           ch == challenge[r.user]
       IN (r.op = "unlock" /\ r.pc = "done" /\ r.outcome = "RECORDED"
           /\ ch.deducted > 0 /\ r.usdcPaid = ch.remaining) =>
            r.deducted + r.usdcPaid = ch.cost

\* C9: refund called twice in a row on the same USAGE transaction id: the call that
\* finds the CONFIRMED USAGE row not yet refunded returns true, credits exactly the
\* deducted amount to the owning identity and appends one REFUND row tagged with the
\* id; the call after it returns false and changes neither the balance nor the ledger.
C9_RefundTwiceRefundsOnce ==
    \A p \in SeqProcs :
       LET r == req[p]
           before == r.pre.txs
           orig == {i \in 1..Len(before) :
                      before[i].id = r.target /\ before[i].type = "USAGE"
                      /\ before[i].status = "CONFIRMED"}
           refunded == \E i \in 1..Len(before) :
                          before[i].type = "REFUND" /\ before[i].originalTxId = r.target
       IN (r.op = "refund" /\ r.pc = "done") =>
            IF orig # {} /\ ~refunded
            THEN LET o == before[CHOOSE i \in orig : TRUE]
                 IN /\ r.outcome = "TRUE"
                    /\ credits = [r.pre.credits EXCEPT ![o.userId].balance = @ + Abs(o.amount)]
                    /\ Len(txs) = Len(before) + 1
                    /\ SubSeq(txs, 1, Len(before)) = before
                    /\ txs[Len(txs)].type = "REFUND"
                    /\ txs[Len(txs)].originalTxId = r.target
                    /\ txs[Len(txs)].amount = Abs(o.amount)
                    /\ txs[Len(txs)].userId = o.userId
                    /\ Cardinality(RefundsOf(r.target)) = 1
            ELSE r.outcome = "FALSE" /\ credits = r.pre.credits /\ txs = before

\* C9 witness: the second refund call on a refunded USAGE transaction has returned.
C9_Witness ==
    \E p \in SeqProcs :
       /\ req[p].op = "refund" /\ req[p].pc = "done" /\ req[p].outcome = "FALSE"
       /\ FindUsage(req[p].target) # 0
       /\ Cardinality(RefundsOf(req[p].target)) = 1

\* C10: in every reachable state, also when two refund calls for the same USAGE
\* transaction id interleave between the existence check, the balance update and the
\* row insert, at most one REFUND row references that id.
C10_OneRefundPerUsage ==
    \A id \in 1..Len(txs) : Cardinality(RefundsOf(id)) <= 1

\* C11: a settlement with preference DIRECT_USDC skips the ledger: on the first request
\* and on the resumed request alike no credits are deducted, no USAGE row is appended
\* or consulted, the balance is unchanged, and the residual demanded on the external
\* rail is the full action cost.
C11_DirectSkipsLedger ==
    \A p \in Procs :
       LET r == req[p]
       IN (r.op = "unlock" /\ r.pref = "DIRECT_USDC"
           /\ r.pc \in {"rp_gate", "rp_settle", "rp_record"}) =>
            /\ r.deducted = 0
            /\ r.txId = NoId
            /\ r.remaining = r.cost
            /\ credits = r.pre.credits
            /\ txs = r.pre.txs

\* C12: when the credit deduction covers the whole cost of a request without a payment
\* authorization, the only step the request takes is to answer FULLY_COVERED with the
\* id of the USAGE row of the deduction: no challenge is issued, nothing is verified
\* or settled on the external rail, and the store is left as the deduction left it.
C12_FullyCoveredSkipsRail ==
    [][\A p \in Procs :
         LET r == req[p]
         IN (r.pc \in {"rp_gate", "hx_gate"} /\ r.remaining <= 0 /\ ~r.isSettling
             /\ req'[p] # r) =>
              /\ req'[p] = [r EXCEPT !.pc = "done", !.outcome = "FULLY_COVERED"]
              /\ FindUsage(r.txId) # 0
              /\ txs[FindUsage(r.txId)].userId = r.user
              /\ txs[FindUsage(r.txId)].amount = -r.cost
              /\ challenge' = challenge /\ txs' = txs /\ credits' = credits]_vars

\* C12 witness: a purchase through the middleware was answered FULLY_COVERED after a
\* deduction of the whole price.
C12_Witness ==
    \E p \in Procs :
       /\ req[p].op = "unlock" /\ req[p].pc = "done"
       /\ req[p].outcome = "FULLY_COVERED"
       /\ req[p].deducted = req[p].cost /\ req[p].cost > 0

\* ------------------------------------------------------------------ pricing claims

\* The schedule entry a granted discount moves a price to: the next strictly lower
\* entry of the tier's schedule, the price itself when none is left.
NextScheduleEntry(domain, cents) ==
    LET lower == {c \in discountSchedule(domain) : c < cents}
    IN IF lower = {} THEN cents ELSE CHOOSE c \in lower : \A d \in lower : d <= c

\* Request slot p finishes a negotiation turn with the oracle's action in this step.
TurnEnds(p, action) ==
    /\ req[p].pc = "na_reply"
    /\ req'[p].pc = "done"
    /\ req'[p].outcome = action

\* C13: in every reachable state the price of every identity is at least the floor of
\* the tier its NegotiationState was created with, whatever action, suggested price
\* or domain string later requests bring; a price below the floor is refused.
C13_PriceNeverBelowFloor ==
    \A w \in Wallets :
       pricingState[w].exists =>
          pricingState[w].cents >= getFloorPrice(pricingState[w].domain)

\* C13 witness: a turn answered with the floor action asked for a floor below the
\* floor of the tier the state was created with.
C13_Witness ==
    \E p \in Procs :
       /\ req[p].op = "chat" /\ req[p].pc = "done" /\ req[p].outcome = "floor"
       /\ req[p].floor < getFloorPrice(pricingState[req[p].user].domain)
       /\ req[p].cost > req[p].floor

\* C14: with negotiation turns handled one at a time, the price of an identity never
\* increases from one state to the next.
C14_PriceNeverIncreases ==
    [][\A w \in Wallets :
         pricingState[w].exists =>
            pricingState'[w].cents <= pricingState[w].cents]_vars

\* C14 witness: a price was reduced twice, and a later turn brought the domain of the
\* other tier.
C14_Witness ==
    \E p \in Procs :
       /\ req[p].op = "chat" /\ req[p].pc = "done" /\ req[p].user \in Wallets
       /\ pricingState[req[p].user].round = 2
       /\ pricingState[req[p].user].domain # req[p].domain

\* C15: a discount suggested while negotiationAttempts is 0 is downgraded to a
\* pushback: price and round are left as they were, the current price is returned,
\* and negotiationAttempts becomes 1.
C15_FirstDiscountIsPushback ==
    [][\A p \in Procs :
         LET w == req[p].user
         IN (TurnEnds(p, "discount") /\ pricingState[w].negotiationAttempts = 0) =>
              /\ pricingState'[w].cents = pricingState[w].cents
              /\ pricingState'[w].round = pricingState[w].round
              /\ pricingState'[w].negotiationAttempts = 1
              /\ req'[p].finalPrice = pricingState[w].cents]_vars

\* C15 witness: a turn that started at negotiationAttempts 0 was answered discount.
C15_Witness ==
    \E p \in Procs :
       /\ req[p].op = "chat" /\ req[p].pc = "done" /\ req[p].outcome = "discount"
       /\ req[p].attempts = 0
       /\ pricingState[req[p].user].negotiationAttempts = 1

\* C16: the suggested price of the oracle never influences pricing: two turns from the
\* same NegotiationState with the same action and different suggestedPriceCents end
\* in the same NegotiationState and return the same price.
C16_SuggestedPriceIgnored ==
    \A p \in Procs :
       req[p].pc = "na_reply" =>
          \A action \in OracleActions, topic \in Topics :
             \A s1, s2 \in SuggestedPrices :
                NegotiationTurn(req[p], action, topic, s1)
                   = NegotiationTurn(req[p], action, topic, s2)

\* C16 witness: a turn waits for the oracle in a state where a discount would lower
\* the price.
C16_Witness ==
    \E p \in Procs :
       /\ req[p].pc = "na_reply"
       /\ req[p].attempts >= 1
       /\ getNextPrice(req[p].domain, req[p].cost) < req[p].cost

\* C17: a price complaint (a turn the oracle labels discount, for the domain the state
\* was created with) moves the price one schedule step at a time: the first complaint
\* leaves it, each later one sets the next strictly lower entry of the schedule, and
\* at the floor it stays at the floor; the turn returns that price.
C17_ComplaintsStepThroughSchedule ==
    [][\A p \in Procs :
         LET w == req[p].user
             st == pricingState[w]
         IN (TurnEnds(p, "discount") /\ st.domain = req[p].domain) =>
              /\ pricingState'[w].cents =
                    IF st.negotiationAttempts = 0 THEN st.cents
                    ELSE NextScheduleEntry(st.domain, st.cents)
              /\ req'[p].finalPrice = pricingState'[w].cents]_vars

\* C17 witness: the fourth complaint of the tier {start 10, floor 5} was answered at
\* the price 5, after two reductions.
C17_Witness ==
    \E p \in Procs :
       LET st == pricingState[req[p].user]
       IN /\ req[p].op = "chat" /\ req[p].pc = "done" /\ req[p].outcome = "discount"
          /\ req[p].domain = "acme.com" /\ st.domain = "acme.com"
          /\ req[p].attempts = 3 /\ st.negotiationAttempts = 4
          /\ st.cents = 5 /\ st.round = 2 /\ req[p].finalPrice = 5

\* C18: every accepted action increments negotiationAttempts by exactly 1 (pushback,
\* discount granted or downgraded, floor and chat) and a quote leaves it unchanged.
C18_EveryActionCountsAnAttempt ==
    [][\A p \in Procs :
         LET w == req[p].user
         IN /\ \A action \in {"pushback", "discount", "floor", "chat"} :
                 TurnEnds(p, action) =>
                    pricingState'[w].negotiationAttempts
                       = pricingState[w].negotiationAttempts + 1
            /\ TurnEnds(p, "quote_price") =>
                    pricingState'[w].negotiationAttempts
                       = pricingState[w].negotiationAttempts]_vars

\* C19: getCurrentPrice creates the state of an identity at the starting price of the
\* request's domain with round 0 and attempts 0; every later call, for the same or
\* another domain, returns the stored price, round and attempts and changes nothing;
\* no operation modifies the stored domain.
C19_GetOrInitIsIdempotent ==
    [][\A p \in Procs :
         LET w == req'[p].user
         IN /\ \A v \in Wallets :
                 pricingState[v].exists =>
                    /\ pricingState'[v].exists
                    /\ pricingState'[v].domain = pricingState[v].domain
            /\ (req[p].pc = "idle" /\ req'[p].op \in {"price", "chat"} /\ w \in Wallets) =>
                 /\ req'[p].cost = pricingState'[w].cents
                 /\ req'[p].attempts = pricingState'[w].negotiationAttempts
                 /\ req'[p].op = "price" => req'[p].round = pricingState'[w].round
                 /\ IF pricingState[w].exists
                    THEN pricingState' = pricingState
                    ELSE pricingState' = [pricingState EXCEPT ![w] =
                            [exists |-> TRUE, cents |-> getStartingPrice(req'[p].domain),
                             round |-> 0, domain |-> req'[p].domain, topic |-> "none",
                             negotiationAttempts |-> 0]]]_vars

\* C19 witness: a price query for the other domain was answered from a state whose
\* price had been reduced.
C19_Witness ==
    \E p \in Procs :
       /\ req[p].op = "price" /\ req[p].pc = "done" /\ req[p].outcome = "PRICE"
       /\ pricingState[req[p].user].domain # req[p].domain
       /\ pricingState[req[p].user].round >= 1
       /\ req[p].cost < getStartingPrice(pricingState[req[p].user].domain)

\* C20: a request without identity is rejected before any ledger or pricing access on
\* every entry point: no step of such a request creates or changes a NegotiationState,
\* a CreditAccount or a ledger row.
C20_NoIdentityTouchesNothing ==
    [][\A p \in Procs :
         (req'[p].op \in {"unlock", "x402", "price", "chat"}
          /\ req'[p].user \in {NoUser, Anonymous}) =>
             /\ pricingState' = pricingState
             /\ credits' = credits
             /\ txs' = txs]_vars

\* ------------------------------------------------------------------ later claims

\* C21: verifyTransaction answers true only if the transaction succeeded, its sender is
\* userWallet, and the Transfer events of that sender carry at least expectedCents x 10000
\* base units; in every other case it answers false.
C21_VerifiedOnlyIfPaid ==
    \A p \in Procs :
       (req[p].op = "verify" /\ req[p].pc = "done") =>
          LET tx == req[p].chain
              paid == /\ tx.found
                      /\ tx.status = "success"
                      /\ toLowerCase(tx.from) = toLowerCase(req[p].user)
                      /\ paidAmountRaw(tx.logs, req[p].user) >= req[p].cost * 10000
          IN req[p].outcome = IF paid THEN "TRUE" ELSE "FALSE"

\* The balance of an account as processPayment reads it: nothing for a missing account.
BalanceIn(store, u) == IF store.credits[u].exists THEN store.credits[u].balance ELSE 0

\* C22: with one call at a time, a credits-first deduct of c > 0 from a balance b >= 0
\* deducts d = min(b, c): the balance becomes b - d, lifetimeUsed grows by d, exactly one
\* CONFIRMED USAGE row of amount -d is appended when d > 0 and none otherwise, every
\* other account is untouched, and the call answers deducted = d, remaining = c - d.
C22_SequentialDeductTakesMin ==
    \A p \in SeqProcs :
       LET r == req[p]
           b == BalanceIn(r.pre, r.user)
           d == IF b < r.cost THEN b ELSE r.cost
           before == r.pre.credits[r.user]
       IN (/\ r.op = "deduct" /\ r.pc = "done"
           /\ r.cost > 0 /\ r.pref = "CREDITS_FIRST" /\ b >= 0) =>
             /\ r.deducted = d /\ r.remaining = r.cost - d
             /\ credits = [r.pre.credits EXCEPT ![r.user] =
                              IF d > 0
                              THEN [before EXCEPT !.balance = b - d,
                                                  !.lifetimeUsed = before.lifetimeUsed + d]
                              ELSE before]
             /\ IF d > 0
                THEN /\ Len(txs) = Len(r.pre.txs) + 1
                     /\ SubSeq(txs, 1, Len(r.pre.txs)) = r.pre.txs
                     /\ LET row == txs[Len(txs)]
                        IN /\ row.type = "USAGE" /\ row.status = "CONFIRMED"
                           /\ row.amount = -d /\ row.userId = r.user
                           /\ row.id = r.txId
                ELSE txs = r.pre.txs

\* A deduct of 4 from a balance of 3 has answered: it took the whole balance and left a
\* remainder of 1.
C22_Witness ==
    \E p \in SeqProcs :
       /\ req[p].op = "deduct" /\ req[p].pc = "done" /\ req[p].pref = "CREDITS_FIRST"
       /\ req[p].deducted = 3 /\ req[p].remaining = 1
       /\ BalanceIn(req[p].pre, req[p].user) = 3
       /\ credits[req[p].user].balance = 0

\* C23: a deduct of an amount <= 0 is a zero-effect success: it answers deducted = 0
\* and remaining = 0 without error, and leaves every account and the ledger as they were.
C23_NonPositiveDeductIsNoOp ==
    \A p \in SeqProcs :
       LET r == req[p]
       IN (r.op = "deduct" /\ r.cost <= 0 /\ r.pc # "idle") =>
             /\ r.pc = "done" /\ r.outcome = "OK"
             /\ r.deducted = 0 /\ r.remaining = 0 /\ r.txId = NoId
             /\ credits = r.pre.credits
             /\ txs = r.pre.txs

\* A deduct of a negative amount from a funded account has answered.
C23_Witness ==
    \E p \in SeqProcs :
       /\ req[p].op = "deduct" /\ req[p].pc = "done" /\ req[p].cost < 0
       /\ req[p].pref = "CREDITS_FIRST"
       /\ BalanceIn(req[p].pre, req[p].user) > 0

\* C24: a refund of an id that no CONFIRMED USAGE row carries (an unknown id, a row of
\* another type, a row that is not CONFIRMED), or that a REFUND row already references,
\* answers false and changes no balance and no row.
C24_RejectedRefundChangesNothing ==
    \A p \in SeqProcs :
       LET r == req[p]
           rows == r.pre.txs
           usage == {k \in 1..Len(rows) : /\ rows[k].id = r.target
                                          /\ rows[k].type = "USAGE"
                                          /\ rows[k].status = "CONFIRMED"}
           refunds == {k \in 1..Len(rows) : /\ rows[k].type = "REFUND"
                                            /\ rows[k].originalTxId = r.target}
       IN (r.op = "refund" /\ (usage = {} \/ refunds # {})) =>
             /\ credits = r.pre.credits
             /\ txs = r.pre.txs
             /\ r.pc = "done" => r.outcome = "FALSE"

\* A refund of the id of a PURCHASE row has answered false.
C24_Witness ==
    \E p \in SeqProcs :
       LET r == req[p]
       IN /\ r.op = "refund" /\ r.pc = "done" /\ r.outcome = "FALSE"
          /\ \E k \in 1..Len(r.pre.txs) :
                /\ r.pre.txs[k].id = r.target
                /\ r.pre.txs[k].type = "PURCHASE"
                /\ r.pre.txs[k].amount > 0

\* C25: the ledger is append-only: no step of a deduction, a funding, a refund, the
\* recording of a settlement or a history query changes or removes a row; the rows a
\* step finds are, in the same order and with the same fields, the first rows after it.
C25_LedgerIsAppendOnly ==
    [][/\ Len(txs') >= Len(txs)
       /\ SubSeq(txs', 1, Len(txs)) = txs]_vars

\* The ledger holds a deposit, a deduction, a recorded settlement and a refund, and a
\* history query has answered rows of it.
C25_Witness ==
    /\ \E k \in 1..Len(txs) : txs[k].type = "PURCHASE"
    /\ \E k \in 1..Len(txs) : txs[k].type = "USAGE"
    /\ \E k \in 1..Len(txs) : txs[k].type = "DIRECT_USDC"
    /\ \E k \in 1..Len(txs) : txs[k].type = "REFUND"
    /\ \E p \in MainProcs :
          /\ req[p].op = "history" /\ req[p].pc = "done"
          /\ Len(req[p].history) >= 2

\* C26: no two rows of the ledger carry the same id.
C26_RowIdsAreUnique ==
    \A i \in 1..Len(txs) : \A j \in 1..Len(txs) :
       i # j => txs[i].id # txs[j].id

\* C27: every deduct call that has started eventually returns, whatever the other calls
\* on the same identity do: the cycle of read, decision and conditional update does not
\* repeat forever.
C27_DeductEventuallyReturns ==
    \A p \in MainProcs :
       (req[p].pc \in {"pp_read", "pp_update", "pp_insert"}) ~> (req[p].pc = "done")

\* A call whose conditional update was rejected has read the account again, found the
\* balance exhausted and answered with a deduction of 0.
C27_Witness ==
    \E p \in MainProcs :
       /\ req[p].op = "deduct" /\ req[p].pc = "done"
       /\ req[p].toDeduct > 0 /\ req[p].deducted = 0 /\ req[p].remaining = req[p].cost
       /\ credits[req[p].user].balance = 0

\* C28: while a client holds a 402 challenge issued after a credit deduction and has
\* not settled it, the deducted credits stay spent however much time passes: the USAGE
\* row of the deduction is in the ledger, no REFUND row references it, and the balance
\* is at most what was deposited less what was deducted.
C28_AbandonedDeductionStaysSpent ==
    \A u \in Users :
       (challenge[u].open /\ challenge[u].deducted > 0) =>
          /\ \E k \in RowsOf(u, "USAGE") :
                /\ txs[k].id = challenge[u].txId
                /\ txs[k].amount = -challenge[u].deducted
          /\ RefundsOf(challenge[u].txId) = {}
          /\ credits[u].balance + UsageTotal(u) <= SumAmounts(RowsOf(u, "PURCHASE"))

\* A client was challenged after its 3 credits were deducted and has presented nothing
\* since; a validity window has passed, no request is running, the balance is still 0.
C28_Witness ==
    \E u \in Users :
       /\ challenge[u].open /\ challenge[u].deducted = 3
       /\ now >= ValidityWindowMs
       /\ \A p \in Procs : req[p].pc = "idle"
       /\ \A k \in 1..Len(txs) : txs[k].type # "DIRECT_USDC"
       /\ credits[u].balance = 0

\* The DIRECT_USDC rows among rows.
DirectRows(rows) == {k \in 1..Len(rows) : rows[k].type = "DIRECT_USDC"}

\* C29: a request with identity to the middleware has appended a DIRECT_USDC row
\* exactly when its settlement succeeded and it was let through: then the row is the
\* one new row, it is
\* CONFIRMED, for the residual, tagged with the transaction reference of the settlement,
\* and both rail amounts are reported; a request answered with a payment error or a
\* failed settlement, or still under way, has appended no such row.
C29_SettlementRowIffSettled ==
    \A p \in SeqProcs :
       LET r == req[p]
           let_through == r.pc = "done" /\ r.outcome = "RECORDED"
       IN (r.op = "unlock" /\ r.user \in Users) =>
             /\ let_through <=> DirectRows(txs) # DirectRows(r.pre.txs)
             /\ let_through =>
                   /\ Len(txs) = Len(r.pre.txs) + 1
                   /\ SubSeq(txs, 1, Len(r.pre.txs)) = r.pre.txs
                   /\ LET row == txs[Len(txs)]
                      IN /\ row.type = "DIRECT_USDC" /\ row.status = "CONFIRMED"
                         /\ row.userId = r.user
                         /\ row.amount = r.remaining /\ row.amount > 0
                         /\ row.txHash > SettlementHashBase
                         /\ r.usdcPaid = row.amount
                   /\ ~challenge[r.user].open
             /\ (r.pc = "done" /\ r.outcome \in {"PAYMENT_ERROR", "SETTLEMENT_FAILED"}) =>
                   txs = r.pre.txs
             /\ r.pc = "rp_record" => ~challenge[r.user].open

\* A resumed request was let through after its settlement of 7 on top of 3 credits.
C29_Witness ==
    \E p \in SeqProcs :
       /\ req[p].op = "unlock" /\ req[p].pc = "done" /\ req[p].outcome = "RECORDED"
       /\ req[p].deducted = 3 /\ req[p].usdcPaid = 7
       /\ txs[Len(txs)].type = "DIRECT_USDC"

\* C30: with negotiation turns of one identity running concurrently, each reading the
\* state, waiting for the oracle and then writing, no step raises the stored price and
\* no step leaves it below the floor of its tier.
C30_ConcurrentTurnsNeverRaisePrice ==
    [][\A w \in Wallets :
         pricingState[w].exists =>
            /\ pricingState'[w].cents <= pricingState[w].cents
            /\ pricingState'[w].cents >= getFloorPrice(pricingState'[w].domain)]_vars

\* ------------------------------------------------------------------ last claims

\* C31: a request to handleX402Request that presents the authorization for the residual
\* it was challenged for makes no second credit deduction, and the residual it is asked
\* to settle is the challenged one.
C31_X402RetryDeductsNothing ==
    \A p \in SeqProcs :
       LET r == req[p]
       IN (/\ r.op = "x402" /\ r.isSettling /\ r.auth > 0
           /\ r.pc \in {"hx_gate", "hx_settle", "done"}) =>
             /\ credits = r.pre.credits
             /\ txs = r.pre.txs
             /\ r.remaining = r.auth

\* C32: the middleware runs the protected handler only when the price is paid in full:
\* credits covered the whole cost, or a settlement of the positive residual succeeded
\* and was recorded, and creditsDeducted + usdcPaid of req.payment is the price; no
\* result of the rail lets a request through otherwise.
C32_HandlerRunsOnlyWhenPaid ==
    \A p \in SeqProcs :
       LET r == req[p]
           handler_runs == r.pc = "done" /\ r.outcome \in {"FULLY_COVERED", "RECORDED", "PASSED"}
       IN (r.op = "unlock" /\ handler_runs) =>
             /\ r.deducted + r.usdcPaid = r.cost
             /\ \/ r.outcome = "FULLY_COVERED" /\ r.usdcPaid = 0
                \/ r.outcome = "RECORDED" /\ r.usdcPaid > 0

\* C33: whenever the middleware answers 402 with a residual to pay, or records a
\* settlement, on a first or on a resumed request, creditsDeducted lies in
\* 0..actionCost and the residual is actionCost - creditsDeducted, so lies in
\* 0..actionCost too, also when the price changed since the challenge.
C33_ResidualWithinCost ==
    \A p \in SeqProcs :
       LET r == req[p]
       IN (/\ r.op = "unlock" /\ r.pc = "done"
           /\ r.outcome \in {"CHALLENGE", "PAYMENT_ERROR", "RECORDED"}) =>
             /\ 0 <= r.deducted /\ r.deducted <= r.cost
             /\ r.remaining = r.cost - r.deducted
             /\ 0 <= r.remaining /\ r.remaining <= r.cost

\* C34: a negotiation turn that starts while negotiationAttempts is 0 does not lower
\* the price of the identity, whatever action the oracle suggests.
C34_NoReductionAtFirstComplaint ==
    [][\A p \in SeqProcs :
         (/\ req[p].op = "chat" /\ req[p].pc = "na_reply" /\ req'[p].pc = "done"
          /\ req[p].attempts = 0) =>
            pricingState'[req[p].user].cents >= pricingState[req[p].user].cents]_vars

\* C35: the currentPrice a negotiation turn returns is the price stored for the identity
\* after the turn, for every oracle action and every domain sent with the request.
C35_ReturnedPriceIsStoredPrice ==
    \A p \in SeqProcs :
       (req[p].op = "chat" /\ req[p].pc = "done" /\ req[p].user \in Wallets) =>
          req[p].finalPrice = pricingState[req[p].user].cents

C37_MintSuccessMeansFunded ==
    \A p \in Procs :
       LET r == req[p]
           deposits == {k \in RowsOf(r.user, "PURCHASE") : txs[k].txHash = r.hash}
       IN (r.op = "fund" /\ r.pc = "done" /\ r.outcome = "TRUE") =>
             /\ Cardinality(deposits) = 1
             /\ (\A q \in Procs : req[q].pc \in {"idle", "done"}) =>
                   credits[r.user].balance =
                      SumAmounts(RowsOf(r.user, "PURCHASE"))
                      + SumAmounts(RowsOf(r.user, "USAGE"))
                      + SumAmounts(RowsOf(r.user, "REFUND"))
             /\ credits[r.user].lifetimePurchased >= SumAmounts(deposits)

\* C38: a negotiation turn whose reply cannot be parsed, or names an action outside the
\* fixed set, changes nothing in the NegotiationState of any identity (price, round,
\* attempts, topic, domain) and returns the stored price.
C38_UnusableReplyChangesNothing ==
    [][\A p \in SeqProcs :
         (TurnEnds(p, "unparsed") \/ TurnEnds(p, "other")) =>
            /\ pricingState' = pricingState
            /\ req'[p].finalPrice = pricingState[req[p].user].cents]_vars

\* A turn of an identity that has already negotiated its price down and chosen a topic
\* was answered with an action outside the fixed set.
C38_Witness ==
    \E p \in SeqProcs :
       /\ req[p].op = "chat" /\ req[p].pc = "done" /\ req[p].outcome = "other"
       /\ req[p].user \in Wallets
       /\ pricingState[req[p].user].round >= 1
       /\ pricingState[req[p].user].negotiationAttempts >= 2
       /\ pricingState[req[p].user].topic # "none"

\* C39: a step of an operation on one identity changes neither the CreditAccount, nor
\* the ledger rows, nor the NegotiationState of any other identity.
C39_OtherIdentitiesUntouched ==
    [][\A p \in SeqProcs : \A v \in Users :
         (v # req[p].user /\ v # req'[p].user) =>
            /\ credits'[v] = credits[v]
            /\ pricingState'[v] = pricingState[v]
            /\ HistoryOf(txs', v) = HistoryOf(txs, v)]_vars

\* Two identities hold accounts, ledger rows and pricing states of their own, and a
\* negotiation turn of one of them has just lowered its price.
C39_Witness ==
    \E p \in SeqProcs : \E u \in Users, v \in Users :
       /\ u # v
       /\ req[p].op = "chat" /\ req[p].pc = "done" /\ req[p].user = u
       /\ pricingState[u].exists /\ pricingState[v].exists
       /\ pricingState[u].cents < pricingState[v].cents
       /\ pricingState[v].negotiationAttempts = 0
       /\ credits[u].exists /\ credits[v].exists
       /\ credits[u].balance < credits[v].balance
       /\ HistoryOf(txs, u) # <<>> /\ HistoryOf(txs, v) # <<>>

====
